---- MODULE Spec2Model ----
(***************************************************************************)
(* A model of super-rodio's SharedPlayer (src/src/shared_player.rs): the   *)
(* PlayerAsset behind Arc<RwLock<..>>, the threads that every control call *)
(* spawns, and the playback worker that play() spawns.                     *)
(*                                                                         *)
(* A caller thread runs a program `prog` (a sequence of control calls).    *)
(* Call number i spawns thread i; pc[i] is that thread's position.  Write  *)
(* sections of the code never block inside the lock, so each is one step   *)
(* guarded by "no reader holds the lock"; the only read section that       *)
(* blocks is the worker's sink.sleep_until_end(), so the set of read       *)
(* holders is the set of workers at pc = "sleep".                          *)
(***************************************************************************)
EXTENDS Integers, Sequences, FiniteSets, TLC

VARIABLES
    prog,       \* the caller's program: a sequence of calls
    cpc,        \* number of calls the caller has issued
    caller,     \* "run" | "panic" (the caller thread unwound)
    pc,         \* pc[i]: position of the thread spawned by call i
    held,       \* held[i]: the `song` local of worker i ("None" when unset)
    handle,     \* handle[i]: the stream handle local of worker i
    at_call,    \* history: for a mode call i, current.song when it was issued
    ended,      \* history: workers one of whose sources played to its natural end
    added,      \* history: the tracks in the order their add() took effect
    waiting_q,  \* PlayerAsset.waiting_q
    played_q,   \* PlayerAsset.played_q
    current,    \* PlayerAsset.current
    mode,       \* PlayerAsset.mode
    sink,       \* PlayerAsset.sink
    gen_out,    \* PlayerAsset.gen_out (which device maker is installed)
    poisoned,   \* the RwLock's poison flag
    policy,     \* the RwLock's priority policy on this platform
    wwait       \* threads blocked inside write()

vars == <<prog, cpc, caller, pc, held, handle, at_call, ended, added, waiting_q, played_q,
          current, mode, sink, gen_out, poisoned, policy, wwait>>

(***************************************************************************)
(* Bounds                                                                  *)
(***************************************************************************)
\* longest program of the exhaustive family (every call sequence up to it)
MaxProg == 2
\* most tracks queued by the scenario programs
MaxTracks == 3

(***************************************************************************)
(* Values                                                                  *)
(***************************************************************************)
\* LimitedQueue::with_capacity(1000)
Capacity == 1000

None == "None"

\* Songs are named by their `name`; "X" has a path File::open fails on.
Songs == {"A", "B", "C", "X"}
GoodSongs == {"A", "B", "C"}

\* File::open(song.path).unwrap() / Decoder::new(file).unwrap() succeed
ResourceOk(s) == s \in GoodSongs

\* source.total_duration(): Some(d) as <<d>>, or None as <<>> for a source of
\* unknown length
total_duration(s) == CASE s = "A" -> <<2>> [] s = "B" -> <<3>> [] OTHER -> <<>>

\* Option::unwrap_or_default on an Option<Duration>
unwrap_or_default(d) == IF d = <<>> THEN 0 ELSE d[1]

\* ActiveSong::default()
DefaultActiveSong ==
    [song |-> None, state |-> "NONE", progress |-> 0, duration |-> 0]

\* ActiveSong::from(song, duration)
ActiveSongFromPlayed(song, duration) ==
    [song |-> song, state |-> "NONE", progress |-> duration, duration |-> duration]

ActiveSongFrom(song, duration) ==
    [song |-> song, state |-> "NONE", progress |-> 0, duration |-> duration]

\* the worker's "prepare playing song" write section
PrepareCurrent(song) ==
    [ActiveSongFrom(song, unwrap_or_default(total_duration(song)))
        EXCEPT !.state = "PLAY"]

\* the worker's "end-of-play" write section, on `current`
FinishCurrentNoClear(cur) ==
    [cur EXCEPT !.progress = cur.duration, !.state = "STOP"]

FinishCurrent(cur) ==
    [cur EXCEPT !.progress = cur.duration, !.state = "STOP", !.song = None]

\* LimitedQueue::push: evicts the oldest entry when full
PushNoEvict(q, s) == Append(q, s)

Push(q, s) == IF Len(q) >= Capacity THEN Append(Tail(q), s) ELSE Append(q, s)

\* LimitedQueue::pop: the oldest entry, or None
PopLast(q) ==
    IF q = <<>> THEN [song |-> None, rest |-> q]
    ELSE [song |-> q[Len(q)], rest |-> SubSeq(q, 1, Len(q) - 1)]

Pop(q) ==
    IF q = <<>> THEN [song |-> None, rest |-> q]
    ELSE [song |-> Head(q), rest |-> Tail(q)]

\* `mode == PlaybackMode::AUTO`
ToAutoPlayAlways(m) == TRUE

ToAutoPlayNever(m) == FALSE

ToAutoPlay(m) == m = "AUTO"

\* `current.state == SongState::PLAY`
IsPlaying(cur) == cur.state = "PLAY"

\* PlayerAsset.sink: None, or Some(Sink) with the sources it still holds
\* (each named by the worker that appended it) and its paused flag
NoSink == [some |-> FALSE, id |-> 0, maker |-> None, q |-> <<>>, paused |-> FALSE]

\* Sink::try_new(&stream_handle)
NewSink(i, h) == [some |-> TRUE, id |-> i, maker |-> h, q |-> <<>>, paused |-> FALSE]

\* sink.append(source)
SinkAppend(s, i) == [s EXCEPT !.q = Append(s.q, i)]

\* sink.stop()
SinkStop(s) == [s EXCEPT !.q = <<>>]

\* sink.is_paused()
SinkIsPaused(s) == s.paused

\* sink.play()
SinkPlay(s) == [s EXCEPT !.paused = FALSE]

\* sink.pause()
SinkPause(s) == [s EXCEPT !.paused = TRUE]

Range(f) == {f[k] : k \in DOMAIN f}

(***************************************************************************)
(* Caller programs                                                         *)
(***************************************************************************)
Call(o, a, j) == [op |-> o, arg |-> a, join |-> j]

WriteOps == {"add", "clear", "normal", "auto", "setmaker"}
ReadOps == {"toggle", "stop"}

\* calls issued without waiting for the returned JoinHandle
Alphabet ==
    {Call("add", "A", FALSE), Call("add", "X", FALSE), Call("play", None, FALSE),
     Call("stop", None, FALSE), Call("toggle", None, FALSE),
     Call("clear", None, FALSE), Call("normal", None, FALSE),
     Call("auto", None, FALSE), Call("setmaker", None, FALSE)}

ProgsUpTo(m) == UNION {[1..n -> Alphabet] : n \in 1..m}

ShortProgs == ProgsUpTo(MaxProg)

\* add(s).join() for each s of a sequence of songs
Adds(ss) == [k \in 1..Len(ss) |-> Call("add", ss[k], TRUE)]

TrackLists == UNION {[1..n -> GoodSongs] : n \in 1..MaxTracks}

\* adds; use_auto_play().join(); play()           (tests::test_auto_play)
AutoProg(ss) == Adds(ss) \o <<Call("auto", None, TRUE), Call("play", None, TRUE)>>

\* adds; use_normal_play(); then one play().join() per track
\*                                  (tests::test_normal_auto_play, second half)
NormalProg(ss) ==
    Adds(ss) \o <<Call("normal", None, TRUE)>>
        \o [k \in 1..Len(ss) |-> Call("play", None, TRUE)]

\* an Auto session over the tracks, then the same tracks again one Normal
\* session each                     (tests::test_normal_auto_play, whole)
NormalAutoProg(ss) == AutoProg(ss) \o NormalProg(ss)

\* adds; t = play(); stop()                        (tests::test_play_stop)
StopProg(ss) == Adds(ss) \o <<Call("play", None, FALSE), Call("stop", None, TRUE)>>

\* adds; t = play(); toggle(); toggle(); stop()   (tests::test_play_resume_stop)
PauseStopProg(ss) ==
    Adds(ss) \o <<Call("play", None, FALSE), Call("toggle", None, TRUE),
                  Call("toggle", None, TRUE), Call("stop", None, TRUE)>>

\* adds; t = play(); then two toggle() calls whose threads run together
ToggleTwiceProg(ss) ==
    Adds(ss) \o <<Call("play", None, FALSE), Call("toggle", None, FALSE),
                  Call("toggle", None, FALSE)>>

\* adds; use_auto_play(); play(); use_normal_play()
SwitchProg(ss) ==
    Adds(ss) \o <<Call("auto", None, TRUE), Call("play", None, FALSE),
                  Call("normal", None, FALSE)>>

\* adds; play(); play()
TwiceProg(ss) ==
    Adds(ss) \o <<Call("auto", None, TRUE), Call("play", None, FALSE),
                  Call("play", None, FALSE)>>

\* adds; use_auto_play(); t = play(); stop()
AutoStopProg(ss) ==
    Adds(ss) \o <<Call("auto", None, TRUE), Call("play", None, FALSE),
                  Call("stop", None, TRUE)>>

\* add(A); t = play(); then a call wanting exclusive access, toggle(), stop()
ContendProg(c) ==
    <<Call("add", "A", TRUE), Call("play", None, FALSE), c,
      Call("toggle", None, FALSE), Call("stop", None, FALSE)>>

\* add(X); add(A); play(); then add, list and play again
BadProg ==
    <<Call("add", "X", TRUE), Call("add", "A", TRUE), Call("play", None, TRUE),
      Call("add", "B", TRUE), Call("play", None, TRUE)>>

\* add(A); use_auto_play(); t = play(); add(B) while the session runs
LateAddProg ==
    <<Call("add", "A", TRUE), Call("auto", None, TRUE), Call("play", None, FALSE),
      Call("add", "B", FALSE)>>

ScenarioProgs ==
    {AutoProg(ss) : ss \in TrackLists} \cup {NormalProg(ss) : ss \in TrackLists}
    \cup {NormalAutoProg(ss) : ss \in TrackLists}
    \cup {StopProg(ss) : ss \in TrackLists}
    \cup {AutoStopProg(ss) : ss \in TrackLists}
    \cup {ContendProg(c) : c \in {c \in Alphabet : c.op \in WriteOps}}
    \cup {PauseStopProg(<<"A">>), ToggleTwiceProg(<<"A">>), SwitchProg(<<"A", "B", "C">>),
          TwiceProg(<<"A">>), TwiceProg(<<"A", "B">>), BadProg, LateAddProg}

Programs == ShortProgs \cup ScenarioProgs

Idx == DOMAIN prog

(***************************************************************************)
(* The lock                                                                *)
(***************************************************************************)
Panics == {"panic_dev", "panic_sink", "panic_res", "panic_poison"}
WorkerPcs == {"gen", "mksink", "pop", "load", "prep", "play", "sleep", "finish", "mode"}
WorkerWritePcs == {"mksink", "pop", "prep", "finish"}

Finished(i) == pc[i] \in {"done", "noop"} \cup Panics

\* a toggle() thread between sink.is_paused() and the sink.play() or
\* sink.pause() that its answer selects
TogglePcs == {"to_play", "to_pause"}

\* threads holding a read guard across steps: workers inside
\* sleep_until_end, and toggle() threads between their two sink calls
Readers == {i \in Idx : pc[i] = "sleep" \/ pc[i] \in TogglePcs}

\* RwLock::read() succeeds: no writer holds the lock (write sections are
\* single steps) and, where the platform's lock prefers writers, none waits
CanRead == policy = "writer" => wwait = {}

\* RwLock::write() succeeds
CanWriteAlways == TRUE

CanWrite == Readers = {}

IsWriter(i) ==
    \/ pc[i] = "spawned" /\ prog[i].op \in WriteOps
    \/ pc[i] \in WorkerWritePcs

(***************************************************************************)
(* Initial state: SharedPlayer::make()                                     *)
(***************************************************************************)
InitPlayer ==
    /\ waiting_q = <<>>
    /\ played_q = <<>>
    /\ current = DefaultActiveSong
    /\ mode = "NORMAL"
    /\ sink = NoSink
    /\ gen_out = "default"
    /\ poisoned = FALSE
    /\ added = <<>>

InitThreads ==
    /\ cpc = 0
    /\ caller = "run"
    /\ pc = [i \in Idx |-> "new"]
    /\ held = [i \in Idx |-> None]
    /\ handle = [i \in Idx |-> None]
    /\ at_call = [i \in Idx |-> None]
    /\ ended = {}
    /\ wwait = {}
    /\ policy \in {"reader", "writer"}

Init ==
    /\ prog \in Programs
    /\ InitThreads
    /\ InitPlayer

(***************************************************************************)
(* The caller                                                              *)
(***************************************************************************)
\* the caller reaches call i: its previous handle was joined if it joins it
CanCall(i) ==
    /\ caller = "run"
    /\ i = cpc + 1
    /\ i \in Idx
    /\ (i > 1 /\ prog[i - 1].join) => Finished(i - 1)

\* any call but play(): spawn a thread that will do the work
CallOp(i) ==
    /\ CanCall(i)
    /\ prog[i].op # "play"
    /\ cpc' = i
    /\ pc' = [pc EXCEPT ![i] = "spawned"]
    /\ at_call' = [at_call EXCEPT ![i] =
                     IF prog[i].op \in {"normal", "auto"} THEN current.song ELSE None]
    /\ UNCHANGED <<added, prog, caller, held, handle, ended, waiting_q, played_q, current,
                   mode, sink, gen_out, poisoned, policy, wwait>>

\* play(): is_playing().join().unwrap(), then a no-op thread or the worker
CallPlay(i) ==
    /\ CanCall(i)
    /\ prog[i].op = "play"
    /\ CanRead
    /\ cpc' = i
    /\ IF poisoned
       THEN /\ pc' = [pc EXCEPT ![i] = "panic_poison"]
            /\ caller' = "panic"
       ELSE /\ pc' = [pc EXCEPT ![i] = IF IsPlaying(current) THEN "noop" ELSE "gen"]
            /\ caller' = caller
    /\ UNCHANGED <<added, prog, held, handle, at_call, ended, waiting_q, played_q, current,
                   mode, sink, gen_out, poisoned, policy, wwait>>

(***************************************************************************)
(* Control threads                                                         *)
(***************************************************************************)
UnchangedLocals == UNCHANGED <<prog, cpc, caller, held, handle, at_call, ended, policy>>

\* a thread blocks in write() behind a reader
WriterBlock(i) ==
    /\ policy = "writer"
    /\ i \in Idx \ wwait
    /\ IsWriter(i)
    /\ Readers # {}
    /\ wwait' = wwait \cup {i}
    /\ UNCHANGED <<added, prog, cpc, caller, pc, held, handle, at_call, ended, waiting_q, played_q,
                   current, mode, sink, gen_out, poisoned, policy>>

\* the write section of a control thread
ExecWrite(i, o) ==
    /\ i \in Idx
    /\ pc[i] = "spawned"
    /\ prog[i].op = o
    /\ CanWrite
    /\ pc' = [pc EXCEPT ![i] = IF poisoned THEN "panic_poison" ELSE "done"]
    /\ wwait' = wwait \ {i}
    /\ UnchangedLocals
    /\ UNCHANGED <<sink, poisoned>>

\* the read section of a control thread
ExecRead(i, o) ==
    /\ i \in Idx
    /\ pc[i] = "spawned"
    /\ prog[i].op = o
    /\ CanRead
    /\ pc' = [pc EXCEPT ![i] = IF poisoned THEN "panic_poison" ELSE "done"]
    /\ UnchangedLocals
    /\ UNCHANGED <<added, waiting_q, played_q, current, mode, gen_out, poisoned, wwait>>

ExecAdd(i) ==
    /\ ExecWrite(i, "add")
    /\ waiting_q' = IF poisoned THEN waiting_q ELSE Push(waiting_q, prog[i].arg)
    /\ added' = IF poisoned THEN added ELSE Append(added, prog[i].arg)
    /\ UNCHANGED <<played_q, current, mode, gen_out>>

ExecClear(i) ==
    /\ ExecWrite(i, "clear")
    /\ waiting_q' = IF poisoned THEN waiting_q ELSE <<>>
    /\ played_q' = IF poisoned THEN played_q ELSE <<>>
    /\ UNCHANGED <<added, current, mode, gen_out>>

ExecNormal(i) ==
    /\ ExecWrite(i, "normal")
    /\ mode' = IF poisoned THEN mode ELSE "NORMAL"
    /\ UNCHANGED <<added, waiting_q, played_q, current, gen_out>>

ExecAuto(i) ==
    /\ ExecWrite(i, "auto")
    /\ mode' = IF poisoned THEN mode ELSE "AUTO"
    /\ UNCHANGED <<added, waiting_q, played_q, current, gen_out>>

ExecSetMaker(i) ==
    /\ ExecWrite(i, "setmaker")
    /\ gen_out' = IF poisoned THEN gen_out ELSE "custom"
    /\ UNCHANGED <<added, waiting_q, played_q, current, mode>>

\* toggle(): take the read guard; if let Some(sink); sink.is_paused()
ToggleCheck(i) ==
    /\ i \in Idx
    /\ pc[i] = "spawned"
    /\ prog[i].op = "toggle"
    /\ CanRead
    /\ pc' = [pc EXCEPT ![i] = IF poisoned THEN "panic_poison"
                              ELSE IF ~sink.some THEN "done"
                              ELSE IF SinkIsPaused(sink) THEN "to_play"
                              ELSE "to_pause"]
    /\ UnchangedLocals
    /\ UNCHANGED <<added, waiting_q, played_q, current, mode, sink, gen_out, poisoned,
                   wwait>>

\* a toggle() that also records the pause in current.state
ToggleActMarksState(i) ==
    /\ i \in Idx
    /\ pc[i] \in TogglePcs
    /\ sink' = IF pc[i] = "to_play" THEN SinkPlay(sink) ELSE SinkPause(sink)
    /\ current' = [current EXCEPT !.state = IF pc[i] = "to_play" THEN "PLAY" ELSE "PAUSE"]
    /\ pc' = [pc EXCEPT ![i] = "done"]
    /\ UnchangedLocals
    /\ UNCHANGED <<added, waiting_q, played_q, mode, gen_out, poisoned, wwait>>

\* toggle(): sink.play() or sink.pause(), then the read guard is dropped
ToggleAct(i) ==
    /\ i \in Idx
    /\ pc[i] \in TogglePcs
    /\ sink' = IF pc[i] = "to_play" THEN SinkPlay(sink) ELSE SinkPause(sink)
    /\ pc' = [pc EXCEPT ![i] = "done"]
    /\ UnchangedLocals
    /\ UNCHANGED <<added, waiting_q, played_q, current, mode, gen_out, poisoned, wwait>>

ExecStop(i) ==
    /\ ExecRead(i, "stop")
    /\ sink' = IF ~poisoned /\ sink.some THEN SinkStop(sink) ELSE sink

(***************************************************************************)
(* The playback worker                                                     *)
(***************************************************************************)
WorkerAt(i, p) == i \in Idx /\ pc[i] = p

Goto(i, p) == pc' = [pc EXCEPT ![i] = p]

\* (state.read().unwrap().gen_out)(): the device maker runs under a read guard
Gen(i) ==
    /\ WorkerAt(i, "gen")
    /\ CanRead
    /\ \E ok \in BOOLEAN :
         IF poisoned THEN Goto(i, "panic_poison") /\ handle' = handle
         ELSE IF ok THEN Goto(i, "mksink") /\ handle' = [handle EXCEPT ![i] = gen_out]
         ELSE Goto(i, "panic_dev") /\ handle' = handle
    /\ UNCHANGED <<added, prog, cpc, caller, held, at_call, ended, waiting_q, played_q, current,
                   mode, sink, gen_out, poisoned, policy, wwait>>

\* a worker that makes the sink and does not store it
MkSinkUnstored(i) ==
    /\ WorkerAt(i, "mksink")
    /\ CanWrite
    /\ wwait' = wwait \ {i}
    /\ \E ok \in BOOLEAN :
         IF poisoned THEN Goto(i, "panic_poison") /\ UNCHANGED <<sink, poisoned>>
         ELSE IF ok THEN /\ Goto(i, "pop")
                         /\ sink' = sink
                         /\ poisoned' = poisoned
         ELSE /\ Goto(i, "panic_sink")
              /\ poisoned' = TRUE
              /\ sink' = sink
    /\ UNCHANGED <<added, prog, cpc, caller, held, handle, at_call, ended, waiting_q, played_q,
                   current, mode, gen_out, policy>>

\* state.sink = Some(Sink::try_new(&stream_handle).unwrap()), under the write guard
MkSink(i) ==
    /\ WorkerAt(i, "mksink")
    /\ CanWrite
    /\ wwait' = wwait \ {i}
    /\ \E ok \in BOOLEAN :
         IF poisoned THEN Goto(i, "panic_poison") /\ UNCHANGED <<sink, poisoned>>
         ELSE IF ok THEN /\ Goto(i, "pop")
                         /\ sink' = NewSink(i, handle[i])
                         /\ poisoned' = poisoned
         ELSE /\ Goto(i, "panic_sink")
              /\ poisoned' = TRUE
              /\ sink' = sink
    /\ UNCHANGED <<added, prog, cpc, caller, held, handle, at_call, ended, waiting_q, played_q,
                   current, mode, gen_out, policy>>

\* let song = { state.write().unwrap().waiting_q.pop() }; None => break
PopSong(i) ==
    /\ WorkerAt(i, "pop")
    /\ CanWrite
    /\ wwait' = wwait \ {i}
    /\ IF poisoned
       THEN Goto(i, "panic_poison") /\ UNCHANGED <<held, waiting_q>>
       ELSE LET r == Pop(waiting_q) IN
            /\ waiting_q' = r.rest
            /\ held' = [held EXCEPT ![i] = r.song]
            /\ Goto(i, IF r.song = None THEN "done" ELSE "load")
    /\ UNCHANGED <<added, prog, cpc, caller, handle, at_call, ended, played_q, current, mode, sink,
                   gen_out, poisoned, policy>>

\* File::open(..).unwrap(); Decoder::new(file).unwrap(): no guard is held
Load(i) ==
    /\ WorkerAt(i, "load")
    /\ Goto(i, IF ResourceOk(held[i]) THEN "prep" ELSE "panic_res")
    /\ UNCHANGED <<added, prog, cpc, caller, held, handle, at_call, ended, waiting_q, played_q, current,
                   mode, sink, gen_out, poisoned, policy, wwait>>

\* state.current = ActiveSong::from(..); state.current.state = PLAY
Prep(i) ==
    /\ WorkerAt(i, "prep")
    /\ CanWrite
    /\ wwait' = wwait \ {i}
    /\ IF poisoned
       THEN Goto(i, "panic_poison") /\ current' = current
       ELSE Goto(i, "play") /\ current' = PrepareCurrent(held[i])
    /\ UNCHANGED <<added, prog, cpc, caller, held, handle, at_call, ended, waiting_q, played_q,
                   mode, sink, gen_out, poisoned, policy>>

\* take the read guard; sink.append(source); enter sink.sleep_until_end()
StartPlay(i) ==
    /\ WorkerAt(i, "play")
    /\ CanRead
    /\ IF poisoned THEN Goto(i, "panic_poison") /\ sink' = sink
       ELSE IF sink.some THEN Goto(i, "sleep") /\ sink' = SinkAppend(sink, i)
       ELSE Goto(i, "finish") /\ sink' = sink
    /\ UNCHANGED <<added, prog, cpc, caller, held, handle, at_call, ended, waiting_q, played_q,
                   current, mode, gen_out, poisoned, policy, wwait>>

\* the backend plays the front source of the sink to its natural end
TrackEnd ==
    /\ sink.some
    /\ sink.q # <<>>
    /\ ~sink.paused
    /\ sink' = [sink EXCEPT !.q = Tail(sink.q)]
    /\ ended' = ended \cup {Head(sink.q)}
    /\ UNCHANGED <<added, prog, cpc, caller, pc, held, handle, at_call, waiting_q, played_q,
                   current, mode, gen_out, poisoned, policy, wwait>>

\* sleep_until_end() returns: the worker's source left the sink; the read
\* guard is dropped
Wake(i) ==
    /\ WorkerAt(i, "sleep")
    /\ i \notin Range(sink.q)
    /\ Goto(i, "finish")
    /\ UNCHANGED <<added, prog, cpc, caller, held, handle, at_call, ended, waiting_q, played_q,
                   current, mode, sink, gen_out, poisoned, policy, wwait>>

\* the end-of-play write section
Finish(i) ==
    /\ WorkerAt(i, "finish")
    /\ CanWrite
    /\ wwait' = wwait \ {i}
    /\ IF poisoned
       THEN Goto(i, "panic_poison") /\ UNCHANGED <<current, played_q>>
       ELSE /\ Goto(i, "mode")
            /\ current' = FinishCurrent(current)
            /\ played_q' = Push(played_q, held[i])
    /\ UNCHANGED <<added, prog, cpc, caller, held, handle, at_call, ended, waiting_q, mode, sink,
                   gen_out, poisoned, policy>>

\* let to_auto_play = { state.read().unwrap().mode == AUTO }; else break
ModeCheck(i) ==
    /\ WorkerAt(i, "mode")
    /\ CanRead
    /\ Goto(i, IF poisoned THEN "panic_poison"
               ELSE IF ToAutoPlay(mode) THEN "pop" ELSE "done")
    /\ UNCHANGED <<added, prog, cpc, caller, held, handle, at_call, ended, waiting_q, played_q,
                   current, mode, sink, gen_out, poisoned, policy, wwait>>

(***************************************************************************)
(* Specification                                                           *)
(***************************************************************************)
Next ==
    \/ \E i \in Idx : CallOp(i)
    \/ \E i \in Idx : CallPlay(i)
    \/ \E i \in Idx : WriterBlock(i)
    \/ \E i \in Idx : ExecAdd(i)
    \/ \E i \in Idx : ExecClear(i)
    \/ \E i \in Idx : ExecNormal(i)
    \/ \E i \in Idx : ExecAuto(i)
    \/ \E i \in Idx : ExecSetMaker(i)
    \/ \E i \in Idx : ToggleCheck(i)
    \/ \E i \in Idx : ToggleAct(i)
    \/ \E i \in Idx : ExecStop(i)
    \/ \E i \in Idx : Gen(i)
    \/ \E i \in Idx : MkSink(i)
    \/ \E i \in Idx : PopSong(i)
    \/ \E i \in Idx : Load(i)
    \/ \E i \in Idx : Prep(i)
    \/ \E i \in Idx : StartPlay(i)
    \/ \E i \in Idx : Wake(i)
    \/ \E i \in Idx : Finish(i)
    \/ \E i \in Idx : ModeCheck(i)
    \/ TrackEnd

Spec == Init /\ [][Next]_vars

TypeOK ==
    /\ prog \in Programs
    /\ cpc \in 0..Len(prog)
    /\ caller \in {"run", "panic"}
    /\ \A i \in Idx : pc[i] \in {"new", "spawned", "done", "noop"} \cup TogglePcs \cup WorkerPcs
                                  \cup Panics
    /\ \A i \in Idx : held[i] \in Songs \cup {None}
    /\ mode \in {"NORMAL", "AUTO"}
    /\ current.state \in {"NONE", "PLAY", "PAUSE", "STOP"}
    /\ poisoned \in BOOLEAN
    /\ wwait \subseteq Idx
    /\ added \in Seq(Songs)

(***************************************************************************)
(* Fairness: threads keep running: while some thread can take a step, a    *)
(* step is taken (every run takes finitely many steps, so no thread that   *)
(* stays runnable is passed over for ever).  Nothing forces a track to     *)
(* reach its natural end (TrackEnd carries no fairness), so what FairSpec  *)
(* promises holds however long the tracks are.                             *)
(***************************************************************************)
ThreadIds == 1..(3 * MaxTracks + MaxProg + 3)

ThreadStep(i) ==
    \/ CallOp(i) \/ CallPlay(i)
    \/ ExecAdd(i) \/ ExecClear(i) \/ ExecNormal(i) \/ ExecAuto(i) \/ ExecSetMaker(i)
    \/ ToggleCheck(i) \/ ToggleAct(i) \/ ExecStop(i)
    \/ Gen(i) \/ MkSink(i) \/ PopSong(i) \/ Load(i) \/ Prep(i) \/ StartPlay(i)
    \/ Wake(i) \/ Finish(i) \/ ModeCheck(i)

Step == \E i \in ThreadIds : ThreadStep(i)

\* the scenario programs and the shorter exhaustive ones
InitFair ==
    /\ prog \in ScenarioProgs \cup ProgsUpTo(MaxProg - 1)
    /\ InitThreads
    /\ InitPlayer

FairSpec == InitFair /\ [][Next]_vars /\ WF_vars(Step)

\* FairSpec with a backend that plays on: a source at the front of a sink
\* that is not paused reaches its end
LiveSpec == InitFair /\ [][Next]_vars /\ WF_vars(Step) /\ WF_vars(TrackEnd)

(***************************************************************************)
(* A player whose queues are one short of capacity: the state after 999    *)
(* adds (A first, then B), an Auto session that played them all,           *)
(* use_normal_play(), and the same 999 adds again.                         *)
(***************************************************************************)
NearFull == [k \in 1..(Capacity - 1) |-> IF k = 1 THEN "A" ELSE "B"]

\* an Auto session over such a queue plays a thousand tracks: the programs
\* run on it switch to Auto or start a session, not both
FullProgs ==
    {p \in ShortProgs :
        ~\E k, m \in DOMAIN p : p[k].op = "auto" /\ p[m].op = "play"}

InitFull ==
    /\ prog \in FullProgs
    /\ InitThreads
    /\ waiting_q = NearFull
    /\ played_q = NearFull
    /\ current = FinishCurrent(PrepareCurrent("B"))
    /\ mode = "NORMAL"
    /\ sink = NewSink(0, "default")
    /\ gen_out = "default"
    /\ poisoned = FALSE
    /\ added = NearFull \o NearFull

SpecFull == InitFull /\ [][Next]_vars

(***************************************************************************)
(* Claims                                                                  *)
(***************************************************************************)
Workers == {i \in Idx : pc[i] \in WorkerPcs}

\* the arguments of the first n calls of a program
ArgsOf(p, n) == [k \in 1..n |-> p[k].arg]

AllFinished == cpc = Len(prog) /\ \A i \in Idx : Finished(i)

\* C1: at most one playback worker loop is alive per player at any time; a
\* second play() never starts a second worker.
C1_AtMostOneWorker == Cardinality(Workers) <= 1

\* worker i is inside sleep_until_end() with its source in the sink
Blocked(i) == i \in Idx /\ pc[i] = "sleep" /\ i \in Range(sink.q)

StopIssued == \E j \in Idx : prog[j].op = "stop" /\ pc[j] = "spawned"

\* every play() handle has completed; a worker that got as far as playing
\* a track can be in none of these positions but "done"
HandlesComplete ==
    \A k \in Idx :
        prog[k].op = "play"
            => pc[k] \in {"done", "noop", "panic_dev", "panic_sink", "panic_res"}

\* a worker is blocked in the play-to-completion call, holding the read
\* guard, and stop() has been issued from another thread
StopWhileBlocked == (\E i \in Idx : Blocked(i)) /\ StopIssued

\* C2: when a worker is blocked in the backend's play-to-completion call,
\* holding the read guard, and stop() is issued from another thread, stop()
\* takes the read guard too, stops the sink, and the worker's play() handle
\* eventually completes.  No track has to reach its natural end (FairSpec
\* puts no fairness on TrackEnd).
C2_StopUnblocksPlay == StopWhileBlocked ~> HandlesComplete

\* C3: after add(A); add(B); play(); stop() have completed (the session
\* having met no backend failure), waiting_list() and played_list() are both
\* empty.
C3_StopClearsEverything ==
    (prog = StopProg(<<"A", "B">>) /\ AllFinished /\ pc[3] = "done")
        => (waiting_q = <<>> /\ played_q = <<>>)

\* C4: for tracks whose add() calls completed in order, one Auto-mode
\* play() session run to completion with no other control call leaves
\* played_q equal to the tracks in the order added, and waiting_q empty.
C4_FifoOrder ==
    LET ss == ArgsOf(prog, Len(prog) - 2) IN
        (ss \in TrackLists /\ prog = AutoProg(ss) /\ pc[Len(prog)] = "done")
            => (played_q = ss /\ waiting_q = <<>>)

C4_Witness ==
    /\ prog = AutoProg(<<"A", "B", "C">>)
    /\ pc[5] = "done"
    /\ played_q = <<"A", "B", "C">>

\* C5: with [A, B, C] queued and an Auto session running, once
\* use_normal_play() is issued while B is playing, the session never pops C.
C5_ModeSwitchStopsAfterCurrent ==
    (prog = SwitchProg(<<"A", "B", "C">>) /\ at_call[6] = "B")
        => (held[5] # "C" /\ "C" \notin Range(played_q))

\* C6: right after a Normal-mode play() session over a single queued track
\* completes, current_song() reports state STOP, progress = duration and
\* no song.
C6_SnapshotAfterSession ==
    \A s \in GoodSongs :
        (prog = NormalProg(<<s>>) /\ pc[3] = "done")
            => /\ current.state = "STOP"
               /\ current.progress = current.duration
               /\ current.duration = unwrap_or_default(total_duration(s))
               /\ current.song = None

C6_Witness ==
    /\ prog = NormalProg(<<"A">>)
    /\ pc[3] = "done"
    /\ current = [song |-> None, state |-> "STOP", progress |-> 2, duration |-> 2]

\* an add's write section runs in this step
AddActs(i) == pc[i] = "spawned" /\ prog[i].op = "add" /\ pc'[i] = "done"

\* C7: waiting_q and played_q never hold more than Capacity entries, and an
\* add() on a full waiting_q keeps the length, drops the oldest entry and
\* puts the new track last.
C7_BoundedEviction ==
    [][/\ Len(waiting_q') <= Capacity
       /\ Len(played_q') <= Capacity
       /\ \A i \in Idx :
            (AddActs(i) /\ Len(waiting_q) = Capacity)
                => waiting_q' = Append(Tail(waiting_q), prog[i].arg)]_vars

C7_Witness ==
    /\ Len(waiting_q) = Capacity
    /\ waiting_q[1] = "B"
    /\ waiting_q[Capacity] = "X"
    /\ \E i \in Idx : prog[i] = Call("add", "X", FALSE) /\ pc[i] = "done"

\* C8: in Normal mode each play() session moves exactly the oldest waiting
\* track to played_q and ends; the next play() plays the next track.  Both
\* on a new player and after an Auto session that played the same tracks.
C8_NormalOnePerSession ==
    /\ LET ss == ArgsOf(prog, Len(prog) \div 2) IN
       \A k \in 1..Len(ss) :
           (/\ ss \in TrackLists
            /\ prog = NormalProg(ss)
            /\ cpc = Len(ss) + 1 + k
            /\ \A m \in 1..k : pc[Len(ss) + 1 + m] = "done")
               => /\ played_q = SubSeq(ss, 1, k)
                  /\ waiting_q = SubSeq(ss, k + 1, Len(ss))
    /\ LET n == (Len(prog) \div 3) - 1
           ss == ArgsOf(prog, n) IN
       \A k \in 1..n :
           (/\ ss \in TrackLists
            /\ prog = NormalAutoProg(ss)
            /\ pc[n + 2] = "done"
            /\ cpc = 2 * n + 3 + k
            /\ \A m \in 1..k : pc[2 * n + 3 + m] = "done")
               => /\ played_q = ss \o SubSeq(ss, 1, k)
                  /\ waiting_q = SubSeq(ss, k + 1, n)

C8_Witness ==
    /\ prog = NormalAutoProg(<<"A", "B", "C">>)
    /\ cpc = 11
    /\ pc[10] = "done"
    /\ pc[11] = "done"
    /\ played_q = <<"A", "B", "C", "A", "B">>
    /\ waiting_q = <<"C">>

\* C9: when the worker fails to open the resource of the track it is about
\* to play, waiting_q and played_q are what they were before that track was
\* popped: the failing track is still in waiting_q.
C9_ResourceFailureKeepsQueues ==
    (prog = BadProg /\ cpc = 3 /\ pc[3] = "panic_res")
        => (waiting_q = <<"X", "A">> /\ played_q = <<>>)

\* C10: a backend failure aborts only the worker it happens in; the guarded
\* state stays usable, so no control call's thread and no caller aborts.
C10_BackendErrorsLeaveStateUsable ==
    /\ caller = "run"
    /\ \A i \in Idx : pc[i] # "panic_poison"

\* C11: in every reachable state, current.state = PLAY implies that the
\* sink is populated (Some).
C11_PlayingImpliesSink == IsPlaying(current) => sink.some

C11_Witness ==
    /\ IsPlaying(current)
    /\ sink.some
    /\ \E i \in Idx : pc[i] = "sleep" /\ sink.id = i /\ sink.q = <<i>>

\* worker i has stored its sink and has not left its loop
InLoop(i) == pc[i] \in {"pop", "load", "prep", "play", "sleep", "finish", "mode"}

\* C12: one sink per session: while a play() worker that has created its
\* sink is still running, the sink stored in the player is the one that
\* worker created, so every track of the session is appended to that sink.
C12_OneSinkPerSession == \A i \in Idx : InLoop(i) => sink.id = i

\* a worker is inside sink.sleep_until_end(), holding the read guard
Sleeping == \E i \in Idx : pc[i] = "sleep"

\* C13: while a worker is inside the blocking play-to-completion section,
\* holding the read guard, no add, clear, use_normal_play, use_auto_play or
\* set_device_maker takes effect: every step taken from such a state leaves
\* waiting_q, played_q, mode, current and gen_out unchanged.
C13_WritersWaitForTrack ==
    [][Sleeping => UNCHANGED <<waiting_q, played_q, mode, current, gen_out>>]_vars

C13_Witness ==
    /\ prog = ContendProg(Call("add", "A", FALSE))
    /\ pc[2] = "sleep"
    /\ 2 \in Range(sink.q)
    /\ pc[3] = "spawned"
    /\ pc[4] = "done"
    /\ sink.paused
    /\ waiting_q = <<>>

\* the read section of a stop() thread runs in this step
ReadActs(i, o) == pc[i] = "spawned" /\ prog[i].op = o /\ pc'[i] # pc[i]

\* a toggle() thread takes one of its steps
ToggleActs(i) ==
    prog[i].op = "toggle" /\ pc[i] \in {"spawned"} \cup TogglePcs /\ pc'[i] # pc[i]

\* C14: toggle() leaves waiting_q, played_q, current (its state included),
\* mode and gen_out unchanged and the sink the same sink with the same
\* sources: it only sets the sink's paused flag, to the opposite of what
\* sink.is_paused() answered; toggle() and stop() on a player whose sink is
\* None change nothing of the player's state.
C14_ToggleFrame ==
    [][\A i \in Idx :
        /\ ToggleActs(i)
             => /\ UNCHANGED <<waiting_q, played_q, current, mode, gen_out, poisoned>>
                /\ sink' = [sink EXCEPT !.paused = sink'.paused]
        /\ (ToggleActs(i) /\ pc[i] = "spawned")
             => /\ sink' = sink
                /\ pc'[i] = "to_play" => sink.some /\ sink.paused
                /\ pc'[i] = "to_pause" => sink.some /\ ~sink.paused
        /\ (ToggleActs(i) /\ pc[i] \in TogglePcs)
             => sink'.paused = (pc[i] = "to_pause")
        /\ ((ToggleActs(i) \/ ReadActs(i, "stop")) /\ ~sink.some)
             => UNCHANGED <<waiting_q, played_q, current, mode, gen_out, poisoned, sink>>]_vars

C14_Witness ==
    /\ prog = PauseStopProg(<<"A">>)
    /\ pc[2] = "sleep"
    /\ pc[3] = "done"
    /\ pc[4] = "new"
    /\ sink = [NewSink(2, "default") EXCEPT !.q = <<2>>, !.paused = TRUE]
    /\ current = PrepareCurrent("A")

\* C15: play() on a new player, whose waiting_q is empty, is a session with
\* no state change: when its handle has completed, waiting_q, played_q,
\* current, mode and sink are what they were before the call.
C15_EmptyPlayNoChange ==
    (prog = <<Call("play", None, FALSE)>> /\ pc[1] = "done")
        => /\ waiting_q = <<>>
           /\ played_q = <<>>
           /\ current = DefaultActiveSong
           /\ mode = "NORMAL"
           /\ sink = NoSink

\* C16: set_device_maker() affects only the play() calls made after it: a
\* worker whose play() was called before any set_device_maker() was called
\* creates its stream and sink with the default device maker.
C16_MakerOnlyForLaterPlays ==
    \A i \in Idx :
        (prog[i].op = "play" /\ \A k \in 1..(i - 1) : prog[k].op # "setmaker")
            => handle[i] # "custom"

\* C17: stop() aborts the whole session: in add(A); add(B);
\* use_auto_play(); play(); stop(), when stop() has cut A short (no track
\* reached its natural end) while B was still waiting, the worker never
\* takes B to play it.
C17_StopAbortsSession ==
    (prog = AutoStopProg(<<"A", "B">>) /\ pc[5] = "done" /\ ended = {})
        => held[4] # "B"

NoFailure == \A i \in Idx : pc[i] \notin Panics

AutoRunning == mode = "AUTO" /\ \E i \in Idx : InLoop(i)

AddsDone == {k \in Idx : prog[k].op = "add" /\ pc[k] = "done"}

NoClear == \A k \in Idx : prog[k].op # "clear"

\* every worker has left its loop with waiting_q empty, and every track
\* that was added (and so popped) is in played_q
SessionOver ==
    /\ Workers = {}
    /\ waiting_q = <<>>
    /\ NoClear => Len(played_q) = Cardinality(AddsDone)

\* C18: an Auto-mode session terminates: when no device or resource fails
\* and the sink does not stay paused (every play-to-completion call
\* returns), a session running in Auto mode leads, unless the mode is
\* switched back to Normal, to a state where the worker has left its loop,
\* waiting_q is empty and every popped track is in played_q.
C18_AutoSessionTerminates ==
    ([]NoFailure /\ []<>(~sink.paused))
        => (AutoRunning ~> (SessionOver \/ mode = "NORMAL"))

C18_Witness ==
    /\ prog = LateAddProg
    /\ pc[3] = "done"
    /\ pc[4] = "done"
    /\ ended = {3}
    /\ played_q = <<"A", "B">>
    /\ waiting_q = <<>>

\* play() calls that started a worker
Sessions == {k \in Idx : prog[k].op = "play" /\ pc[k] \notin {"new", "noop"}}

\* workers holding a track between their pop and their push to played_q
Holders == {i \in Idx : pc[i] \in {"load", "prep", "play", "sleep", "finish"}}

InFlight == IF Holders = {} THEN <<>> ELSE <<held[CHOOSE i \in Holders : TRUE]>>

ClearRan == \E k \in Idx : prog[k].op = "clear" /\ pc[k] \in {"done", "panic_poison"}

\* C19: with a single worker, as long as no clear() has run and no track
\* was evicted, played_q, followed by the track the worker holds between
\* its pop and its push to played_q (if any), followed by waiting_q, is
\* the sequence of tracks in the order their add() took effect.
C19_TrackConservation ==
    (Cardinality(Sessions) <= 1 /\ ~ClearRan /\ Len(added) <= Capacity)
        => played_q \o InFlight \o waiting_q = added

\* C20: in every reachable state, current.song is Some exactly when
\* current.state is PLAY; state STOP implies progress = duration; state
\* PLAY implies progress = 0; and the state is never PAUSE (is_playing()
\* stays true while toggle() has the sink paused).
C20_ActiveShape ==
    /\ (current.song # None) <=> (current.state = "PLAY")
    /\ current.state = "STOP" => current.progress = current.duration
    /\ current.state = "PLAY" => current.progress = 0
    /\ current.state # "PAUSE"

C20_Witness ==
    /\ prog = ContendProg(Call("auto", None, FALSE))
    /\ pc[2] = "sleep"
    /\ pc[4] = "done"
    /\ sink.paused
    /\ IsPlaying(current)
    /\ current.song = "A"
    /\ current.duration = 2

\* thread k has been spawned by a call of one of the operations `ops` and
\* has not got the lock yet
Pending(ops) == {k \in Idx : pc[k] = "spawned" /\ prog[k].op \in ops}

\* the worker sleeps on a paused sink holding the read guard, calls wanting
\* the write guard wait behind it, and the toggle()/stop() calls that could
\* resume or end the track cannot get the read guard (and none of them
\* already holds it): no thread of these can ever take a step again
PausedDeadlock ==
    /\ \E i \in Idx : Blocked(i) /\ sink.paused
    /\ Pending(WriteOps) # {}
    /\ Pending(ReadOps) # {}
    /\ \A k \in Idx : pc[k] \notin TogglePcs
    /\ ~CanRead

\* C21: a paused session can always be recovered: with the worker blocked
\* on a sink that toggle() paused, a later toggle() or stop() still gets
\* the read guard while add(), clear() or mode calls wait for the write
\* guard, so the player never reaches a state where the worker, the
\* pending writers and the later toggle()/stop() calls are all blocked.
C21_PausedSessionRecoverable == ~PausedDeadlock

====
